---- MODULE Spec2Model ----
(***************************************************************************)
(* RBXLX-to-Rojo converter: the name normalizer (utils.py), the two-pass   *)
(* graph parser (roblox_parser.py), the project emitter                    *)
(* (rojo_project_generator.py) and the orchestrator (rbxlx_to_rojo.py).    *)
(*                                                                         *)
(* Display names are sequences of one-character strings, so that           *)
(* normalize_name is computed character by character as the code does.     *)
(* File-system path segments are strings obtained by joining characters.   *)
(***************************************************************************)
EXTENDS Naturals, Integers, Sequences, FiniteSets, TLC

VARIABLES
    \* ---- name normalizer harness (utils.normalize_name) ----
    npc,            \* "off" | "start" | "once" | "twice"
    name_in,        \* the display name handed to normalize_name
    normalized,     \* normalize_name(name_in)
    renormalized,   \* normalize_name(normalize_name(name_in))
    \* ---- the run: rbxlx_to_rojo.main ----
    pc,             \* position of the run
    exit_code,      \* Running, then the process's exit status
    args,           \* [version, input_file, output_dir]: the command line
    doc,            \* the input file: [items, bad]
    \* ---- the file system ----
    dirs,           \* the directories, as absolute paths (sequences of segments)
    files,          \* the regular files: path -> content
    readonly,       \* the directories the process may not write to
    \* ---- RobloxParser ----
    instances,      \* self.instances: dict referent -> node, in insertion order
    child_instances,\* the local set child_instances of parse()
    root_instances, \* self.root_instances
    p1,             \* pass 1: index of the next 'end' event
    p2,             \* pass 2: index of the next Item of findall('.//Item')
    game_data,      \* NoData until parse() returns, then [name]; its 'instances' and
                    \* 'root_instances' are the parser's own objects above
    \* ---- RojoProjectGenerator ----
    created_paths,      \* self.created_paths
    workspace_instance, \* generate_project's local: referent of the saved Workspace
    workspace_path,     \* generate_project's local
    root_idx,           \* position of the loop over game_data['root_instances']
    stack,              \* the loops over children that are under way, innermost last
    \* ---- observation ----
    out_before,     \* what the output directory was when the process started
    calls,          \* the invocations of _process_instance so far in this run
    run,            \* 1: the conversion; 2: generate_project run again on its output;
                    \* 3: the conversion run again with another output directory
    first_output    \* NoData, then the directories and files the first run left

normVars == <<npc, name_in, normalized, renormalized>>

parserVars == <<instances, child_instances, root_instances, p1, p2, game_data>>

fsVars == <<dirs, files, readonly>>

genVars == <<created_paths, workspace_instance, workspace_path, root_idx, stack, calls>>

runVars == <<out_before, run, first_output>>

vars == <<npc, name_in, normalized, renormalized, pc, exit_code, args, doc,
          dirs, files, readonly,
          instances, child_instances, root_instances, p1, p2, game_data,
          created_paths, workspace_instance, workspace_path, root_idx, stack,
          out_before, calls, run, first_output>>

-----------------------------------------------------------------------------
(* Sequence helpers *)

Range(s) == {s[i] : i \in 1..Len(s)}

\* Python's None, where a string, a record and a path are expected
None == "None"

NoData == [none |-> TRUE]

NoPath == <<>>

\* the exit status of a process that is still running
Running == 0 - 1

\* A Python dict, which keeps insertion order: a sequence of [k, v] entries
\* with distinct keys.
DictHas(d, key) == \E i \in 1..Len(d) : d[i].k = key

DictGet(d, key) == d[CHOOSE i \in 1..Len(d) : d[i].k = key].v

\* d[key] = val: a new key goes last, an old key keeps its place
DictSet(d, key, val) ==
    IF DictHas(d, key)
    THEN [i \in 1..Len(d) |-> IF d[i].k = key THEN [k |-> key, v |-> val] ELSE d[i]]
    ELSE Append(d, [k |-> key, v |-> val])

DictKeys(d) == [i \in 1..Len(d) |-> d[i].k]

RECURSIVE Join(_)
\* ''.join(chars): a sequence of one-character strings as one string
Join(cs) == IF cs = <<>> THEN "" ELSE Head(cs) \o Join(Tail(cs))

-----------------------------------------------------------------------------
(* utils.normalize_name *)

\* string.ascii_lowercase and string.ascii_uppercase
AsciiLower ==
    <<"a","b","c","d","e","f","g","h","i","j","k","l","m",
      "n","o","p","q","r","s","t","u","v","w","x","y","z">>

AsciiUpper ==
    <<"A","B","C","D","E","F","G","H","I","J","K","L","M",
      "N","O","P","Q","R","S","T","U","V","W","X","Y","Z">>

AsciiLetters == Range(AsciiLower) \cup Range(AsciiUpper)

Digits == {"0","1","2","3","4","5","6","7","8","9"}

\* valid_chars = "-_.() %s%s" % (string.ascii_letters, string.digits)
valid_chars == {"-", "_", ".", "(", ")", " "} \cup AsciiLetters \cup Digits

\* the characters str.strip() removes when called without an argument
Whitespace == {" ", "\t", "\n", "\r", "\f"}

RECURSIVE LStrip(_, _)
LStrip(s, cs) ==
    IF s # <<>> /\ Head(s) \in cs THEN LStrip(Tail(s), cs) ELSE s

RECURSIVE RStrip(_, _)
RStrip(s, cs) ==
    IF s # <<>> /\ s[Len(s)] \in cs THEN RStrip(SubSeq(s, 1, Len(s) - 1), cs) ELSE s

\* str.strip(chars): drop leading and trailing characters that are in cs
Strip(s, cs) == RStrip(LStrip(s, cs), cs)

\* ''.join(c if c in valid_chars else '_' for c in name)
ReplaceInvalid(s) == [i \in 1..Len(s) |-> IF s[i] \in valid_chars THEN s[i] ELSE "_"]

Unnamed == <<"u","n","n","a","m","e","d">>

normalize_name(s) ==
    LET stripped == Strip(Strip(ReplaceInvalid(s), {"_"}), Whitespace)
    IN  IF stripped = <<>> THEN Unnamed ELSE stripped

-----------------------------------------------------------------------------
(* roblox_parser.RobloxParser._extract_property_value                       *)
(*                                                                         *)
(* A property element is [name, tag, text, subs]: text is the element's    *)
(* text as a sequence of characters, <<>> standing for Python's None (lxml *)
(* gives None, never "", for an element without text); subs is the         *)
(* sequence of its sub-elements [tag, text]. A decoded value is a record   *)
(* tagged by t; Raised stands for an exception leaving the decoder.        *)

Raised == [t |-> "raise"]

StrV(cs) == [t |-> "str", v |-> cs]

\* str.lower() on ASCII text
LowerChar(c) ==
    IF \E i \in 1..Len(AsciiUpper) : AsciiUpper[i] = c
    THEN AsciiLower[CHOOSE i \in 1..Len(AsciiUpper) : AsciiUpper[i] = c]
    ELSE c

Lower(cs) == [i \in 1..Len(cs) |-> LowerChar(cs[i])]

TrueText == <<"t","r","u","e">>

DigitSeq == <<"0","1","2","3","4","5","6","7","8","9">>

DigitVal(c) == (CHOOSE i \in 1..Len(DigitSeq) : DigitSeq[i] = c) - 1

RECURSIVE DigitsVal(_)
DigitsVal(ds) ==
    IF ds = <<>> THEN 0 ELSE 10 * DigitsVal(SubSeq(ds, 1, Len(ds) - 1)) + DigitVal(ds[Len(ds)])

RECURSIVE Pow10(_)
Pow10(k) == IF k = 0 THEN 1 ELSE 10 * Pow10(k - 1)

\* a numeric literal without its surrounding whitespace and sign
Unsigned(cs) ==
    LET s == Strip(cs, Whitespace)
    IN  IF s # <<>> /\ Head(s) \in {"-", "+"} THEN Tail(s) ELSE s

Sign(cs) ==
    LET s == Strip(cs, Whitespace)
    IN  IF s # <<>> /\ Head(s) = "-" THEN 0 - 1 ELSE 1

\* int(text or 0): optional whitespace, optional sign, decimal digits;
\* anything else raises ValueError
ParseInt(cs) ==
    IF cs = <<>> THEN [t |-> "int", v |-> 0]
    ELSE LET u == Unsigned(cs)
         IN  IF u # <<>> /\ Range(u) \subseteq Digits
             THEN [t |-> "int", v |-> Sign(cs) * DigitsVal(u)]
             ELSE Raised

\* float(text or 0): a decimal literal digits[.digits]; the value is kept as
\* v / 10^e with the fraction's trailing zeros dropped, so that equal numbers
\* have equal representations
ParseFloat(cs) ==
    IF cs = <<>> THEN [t |-> "float", v |-> 0, e |-> 0]
    ELSE LET u    == Unsigned(cs)
             dots == {i \in 1..Len(u) : u[i] = "."}
             dot  == IF dots = {} THEN Len(u) + 1 ELSE CHOOSE i \in dots : TRUE
             ip   == SubSeq(u, 1, dot - 1)
             fp   == RStrip(SubSeq(u, dot + 1, Len(u)), {"0"})
         IN  IF /\ Cardinality(dots) <= 1
                /\ Range(ip) \cup Range(SubSeq(u, dot + 1, Len(u))) \subseteq Digits
                /\ Len(u) > Cardinality(dots)
             THEN [t |-> "float",
                   v |-> Sign(cs) * (DigitsVal(ip) * Pow10(Len(fp)) + DigitsVal(fp)),
                   e |-> Len(fp)]
             ELSE Raised

\* base64.b64decode(text).decode('utf-8') for the texts the model draws:
\* "YQ==" is "a"; a text of characters outside the base64 alphabet decodes to
\* the empty string (they are discarded); "YQ" has incorrect padding and "/w=="
\* is the byte 0xFF, which is not UTF-8: both raise
B64Decode(cs) ==
    CASE cs = <<"Y","Q","=","=">> -> StrV(<<"a">>)
      [] cs = <<"!">>             -> StrV(<<>>)
      [] OTHER                    -> Raised

\* elem.find(tag): the first sub-element with that tag (0: None)
Find(subs, tag) ==
    IF \E i \in 1..Len(subs) : subs[i].tag = tag
    THEN CHOOSE i \in 1..Len(subs) :
            subs[i].tag = tag /\ \A j \in 1..(i - 1) : subs[j].tag # tag
    ELSE 0

\* a record {key: value} built from decoded components; raises if one raised
MapV(vals) ==
    IF \E k \in DOMAIN vals : vals[k] = Raised THEN Raised
    ELSE [t |-> "map", v |-> vals]

Zero == [t |-> "int", v |-> 0]

ExtractBase64(p) ==
    IF p.text # <<>>
    THEN IF B64Decode(p.text) = Raised THEN StrV(p.text) ELSE B64Decode(p.text)
    ELSE StrV(<<>>)

ExtractColor(p) ==
    IF \A k \in {"R", "G", "B"} : Find(p.subs, k) # 0
    THEN MapV([k \in {"R", "G", "B"} |-> ParseFloat(p.subs[Find(p.subs, k)].text)])
    ELSE MapV([k \in {"R", "G", "B"} |-> Zero])

ExtractVector(p) ==
    LET keys == {"X", "Y"} \cup
                (IF p.tag = "Vector3" /\ Find(p.subs, "Z") # 0 THEN {"Z"} ELSE {})
    IN  MapV([k \in keys |-> IF Find(p.subs, k) # 0
                            THEN ParseFloat(p.subs[Find(p.subs, k)].text)
                            ELSE Zero])

\* components[component.tag] = float(component.text or 0): the last
\* sub-element of a tag wins
ExtractCFrame(p) ==
    LET last(k) == CHOOSE i \in 1..Len(p.subs) :
                      p.subs[i].tag = k /\ \A j \in (i + 1)..Len(p.subs) : p.subs[j].tag # k
    IN  IF \E i \in 1..Len(p.subs) : ParseFloat(p.subs[i].text) = Raised
        THEN Raised
        ELSE MapV([k \in {p.subs[i].tag : i \in 1..Len(p.subs)} |->
                      ParseFloat(p.subs[last(k)].text)])

\* prop_elem.find('CustomPhysics').text.lower() == 'true'
ExtractPhysical(p) ==
    LET i == Find(p.subs, "CustomPhysics")
    IN  IF i = 0 \/ p.subs[i].text = <<>> THEN Raised
        ELSE MapV([k \in {"CustomPhysics"} |->
                      [t |-> "bool", v |-> Lower(p.subs[i].text) = TrueText]])

extract_property_value(p) ==
    CASE p.tag \in {"string", "Content", "UniqueId"} -> StrV(p.text)
      [] p.tag \in {"int", "int64", "token"} -> ParseInt(p.text)
      [] p.tag \in {"float", "double"} -> ParseFloat(p.text)
      [] p.tag = "bool" ->
            IF p.text = <<>> THEN Raised
            ELSE [t |-> "bool", v |-> Lower(p.text) = TrueText]
      [] p.tag \in {"BinaryString", "ProtectedString"} -> ExtractBase64(p)
      [] p.tag = "SecurityCapabilities" ->
            StrV(IF p.text = <<>> THEN <<"0">> ELSE p.text)
      [] p.tag = "Ref" ->
            StrV(IF p.text = <<>> THEN <<"n","u","l","l">> ELSE p.text)
      [] p.tag \in {"Color3", "Color3uint8"} -> ExtractColor(p)
      [] p.tag \in {"Vector2", "Vector3"} -> ExtractVector(p)
      [] p.tag \in {"CFrame", "CoordinateFrame"} -> ExtractCFrame(p)
      [] p.tag = "PhysicalProperties" -> ExtractPhysical(p)
      [] OTHER -> [t |-> "xml", v |-> p]

-----------------------------------------------------------------------------
(* The input document.                                                     *)
(*                                                                         *)
(* doc.items lists the Item elements below the document's root element in  *)
(* document order; each is [par, ref, class, props]: the index of the Item *)
(* element that directly contains it (0: none), its referent and class     *)
(* attributes ("" when missing) and the property elements of its           *)
(* Properties child. doc.bad = k > 0 is malformed markup met when the      *)
(* parser asks for its k-th 'end' event; doc.bad = 0 is well-formed.        *)

RECURSIVE SortedSeq(_)
\* a set of numbers as an increasing sequence
SortedSeq(S) ==
    IF S = {} THEN <<>>
    ELSE LET m == CHOOSE x \in S : \A y \in S : x <= y
         IN  <<m>> \o SortedSeq(S \ {m})

\* item_elem.findall('./Item'): the direct Item children, in document order
ChildElems(items, i) == SortedSeq({j \in 1..Len(items) : items[j].par = i})

RECURSIVE EndOrder(_, _)
\* the Item elements below element i in the order of their 'end' events
EndOrder(items, i) ==
    LET kids == ChildElems(items, i)
        below[k \in 0..Len(kids)] ==
            IF k = 0 THEN <<>>
            ELSE below[k - 1] \o EndOrder(items, kids[k]) \o <<kids[k]>>
    IN  below[Len(kids)]

-----------------------------------------------------------------------------
(* roblox_parser.RobloxParser.parse *)

NewInstance(class_name, ref_id) ==
    [class |-> class_name, referent |-> ref_id, properties |-> <<>>,
     children |-> <<>>, parent |-> None]

\* the main function's except clause: log the error, sys.exit(1)
ExitWith(code) ==
    /\ pc' = "done"
    /\ exit_code' = code

\* a parser that recovers from malformed markup instead of raising
ParseFailsUnreadableOnly(input_file, bad, k) == input_file = "unreadable"

\* lines 32 and 36: does iterparse raise when asked for its k-th event: the
\* file cannot be read, or the markup is malformed there
ParseFails(input_file, bad, k) == input_file = "unreadable" \/ bad = k

\* lines 36-51: one 'end' event of the first pass
Pass1Item ==
    /\ pc = "pass1"
    /\ p1 <= Len(doc.items)
    /\ ~ParseFails(args.input_file, doc.bad, p1)
    /\ LET elem == doc.items[EndOrder(doc.items, 0)[p1]]
       IN  instances' = IF elem.ref # "" /\ elem.class # ""
                        THEN DictSet(instances, elem.ref, NewInstance(elem.class, elem.ref))
                        ELSE instances
    /\ p1' = p1 + 1
    /\ UNCHANGED <<pc, exit_code, child_instances, root_instances, p2, game_data>>
    /\ UNCHANGED <<normVars, args, doc, fsVars, genVars, runVars>>

\* lines 32, 36 and 115-117: iterparse cannot read the file, or meets
\* malformed markup; parse() logs and re-raises, main exits with status 1
ParseRaises ==
    /\ pc = "pass1"
    /\ ParseFails(args.input_file, doc.bad, p1)
    /\ ExitWith(1)
    /\ UNCHANGED <<instances, child_instances, root_instances, p1, p2, game_data>>
    /\ UNCHANGED <<normVars, args, doc, fsVars, genVars, runVars>>

\* lines 53-63: the first pass is over, the document is parsed again
Pass1End ==
    /\ pc = "pass1"
    /\ p1 = Len(doc.items) + 1
    /\ ~ParseFails(args.input_file, doc.bad, p1)
    /\ pc' = "pass2"
    /\ p2' = 1
    /\ child_instances' = {}
    /\ UNCHANGED <<exit_code, instances, root_instances, p1, game_data>>
    /\ UNCHANGED <<normVars, args, doc, fsVars, genVars, runVars>>

RECURSIVE ExtractProperties(_, _)
\* lines 74-79: the decoded properties of one Item, stored into its dict;
\* raised tells that a decoder raised
ExtractProperties(properties, props) ==
    IF props = <<>> THEN [raised |-> FALSE, properties |-> properties]
    ELSE LET prop_value == extract_property_value(Head(props))
         IN  IF prop_value = Raised THEN [raised |-> TRUE, properties |-> properties]
             ELSE ExtractProperties(DictSet(properties, Head(props).name, prop_value),
                                    Tail(props))

RECURSIVE LinkChildren(_, _, _)
\* lines 82-87: the direct Item children of the element of ref_id appended to
\* its children, their parent set; kids are the children still to link
LinkChildren(insts, ref_id, kids) ==
    IF kids = <<>> THEN insts
    ELSE LET child_ref == Head(kids)
             appended  == DictSet(insts, ref_id,
                              [DictGet(insts, ref_id) EXCEPT
                                  !.children = Append(@, child_ref)])
             linked    == DictSet(appended, child_ref,
                              [DictGet(appended, child_ref) EXCEPT !.parent = ref_id])
         IN  IF DictHas(insts, child_ref)
             THEN LinkChildren(linked, ref_id, Tail(kids))
             ELSE LinkChildren(insts, ref_id, Tail(kids))

\* the referents of the direct Item children of element i, in document order
ChildRefs(items, i) ==
    LET kids == ChildElems(items, i)
    IN  [k \in 1..Len(kids) |-> items[kids[k]].ref]

\* lines 66-87: one Item element of the second pass
Pass2Item ==
    /\ pc = "pass2"
    /\ p2 <= Len(doc.items)
    /\ LET item_elem == doc.items[p2]
           ref_id    == item_elem.ref
       IN  IF ~DictHas(instances, ref_id)
           THEN /\ p2' = p2 + 1
                /\ UNCHANGED <<pc, exit_code, instances, child_instances>>
           ELSE LET instance   == DictGet(instances, ref_id)
                    extracted  == ExtractProperties(instance.properties, item_elem.props)
                    with_props == DictSet(instances, ref_id,
                                      [instance EXCEPT !.properties = extracted.properties])
                    child_refs == ChildRefs(doc.items, p2)
                IN  IF extracted.raised
                    THEN /\ ExitWith(1)
                         /\ UNCHANGED <<instances, child_instances, p2>>
                    ELSE /\ instances' = LinkChildren(with_props, ref_id, child_refs)
                         /\ child_instances' = child_instances \cup
                                {c \in Range(child_refs) : DictHas(instances, c)}
                         /\ p2' = p2 + 1
                         /\ UNCHANGED <<pc, exit_code>>
    /\ UNCHANGED <<root_instances, p1, game_data>>
    /\ UNCHANGED <<normVars, args, doc, fsVars, genVars, runVars>>

\* the root test lost: every instance is taken for a root
IsRootInstanceAlways(insts, children_seen, ref_id) == TRUE

\* lines 91-93: is ref_id a root instance
IsRootInstance(insts, children_seen, ref_id) ==
    ref_id \notin children_seen /\ DictGet(insts, ref_id).parent = None

RECURSIVE SelectRoots(_, _, _)
SelectRoots(insts, children_seen, keys) ==
    IF keys = <<>> THEN <<>>
    ELSE (IF IsRootInstance(insts, children_seen, Head(keys)) THEN <<Head(keys)>> ELSE <<>>)
         \o SelectRoots(insts, children_seen, Tail(keys))

\* self.rbxlx_path.stem
InputStem == <<"p","l","a","c","e">>

\* the first key of keys whose instance has the class and a Name property,
\* None if there is none
FirstNamed(insts, keys, class_name) ==
    LET hits == {i \in 1..Len(keys) :
                    /\ DictGet(insts, keys[i]).class = class_name
                    /\ DictHas(DictGet(insts, keys[i]).properties, "Name")}
    IN  IF hits = {} THEN None ELSE keys[CHOOSE i \in hits : \A j \in hits : i <= j]

\* the name of a Workspace looked for before that of a DataModel
get_game_name_workspace_first(insts, roots) ==
    LET dm == FirstNamed(insts, roots, "DataModel")
        ws == FirstNamed(insts, DictKeys(insts), "Workspace")
    IN  IF ws # None THEN DictGet(DictGet(insts, ws).properties, "Name")
        ELSE IF dm # None THEN DictGet(DictGet(insts, dm).properties, "Name")
        ELSE StrV(InputStem)

get_game_name(insts, roots) ==
    LET dm == FirstNamed(insts, roots, "DataModel")
        ws == FirstNamed(insts, DictKeys(insts), "Workspace")
    IN  IF dm # None THEN DictGet(DictGet(insts, dm).properties, "Name")
        ELSE IF ws # None THEN DictGet(DictGet(insts, ws).properties, "Name")
        ELSE StrV(InputStem)

\* lines 89-113: the root instances, the game name; parse() returns game_data
DetermineRoots ==
    /\ pc = "pass2"
    /\ p2 = Len(doc.items) + 1
    /\ LET roots == SelectRoots(instances, child_instances, DictKeys(instances))
       IN  /\ root_instances' = roots
           /\ game_data' = [name |-> get_game_name(instances, roots)]
    /\ pc' = "generate"
    /\ UNCHANGED <<exit_code, instances, child_instances, p1, p2>>
    /\ UNCHANGED <<normVars, args, doc, fsVars, genVars, runVars>>

-----------------------------------------------------------------------------
(* The file system, as pathlib and open() use it.                          *)
(*                                                                         *)
(* The operations work on a record st = [dirs, files, created_paths,       *)
(* raised, calls, stack]; once st.raised is set an exception is            *)
(* propagating and every later operation leaves st alone.                  *)

Prefixes(p) == {SubSeq(p, 1, k) : k \in 0..Len(p)}

Parent(p) == SubSeq(p, 1, Len(p) - 1)

\* the result of looking up a path that leads nowhere
NoEntry == <<"", "">>

RECURSIVE Walk(_, _, _)
\* the lookup of the segments rest from the directory at: ".." leads from a
\* directory to the one that holds it (the root directory holds itself) and
\* nowhere from anything else
Walk(st, at, rest) ==
    IF rest = <<>> THEN at
    ELSE IF Head(rest) # ".." THEN Walk(st, Append(at, Head(rest)), Tail(rest))
    ELSE IF at \notin st.dirs THEN NoEntry
    ELSE Walk(st, IF at = <<>> THEN at ELSE Parent(at), Tail(rest))

\* the place in the file system that the path p, taken from the root
\* directory, names: st.dirs and st.files hold places, the generator holds
\* paths
Resolve(st, p) == Walk(st, <<>>, p)

\* Path.exists(); a path below a regular file does not exist
Exists(st, p) == Resolve(st, p) \in st.dirs \/ Resolve(st, p) \in DOMAIN st.files

Raise(st) == [st EXCEPT !.raised = TRUE]

\* Path.mkdir(parents=True) on a path that does not exist: fails below a
\* regular file and in a directory that may not be written
Mkdir(st, p) ==
    LET place   == Resolve(st, p)
        missing == Prefixes(place) \ st.dirs
        holder  == CHOOSE q \in Prefixes(place) \cap st.dirs :
                      \A r \in Prefixes(place) \cap st.dirs : Len(r) <= Len(q)
    IN  IF st.raised THEN st
        ELSE IF \/ place = NoEntry
                \/ missing \cap DOMAIN st.files # {}
                \/ Prefixes(place) \cap st.dirs = {}
                \/ holder \in readonly
        THEN Raise(st)
        ELSE [st EXCEPT !.dirs = @ \cup missing]

\* if not path.exists(): path.mkdir(parents=True, exist_ok=True);
\*                        self.created_paths.add(str(path))
MkdirIfAbsent(st, p) ==
    IF st.raised \/ Exists(st, p) THEN st
    ELSE LET made == Mkdir(st, p)
         IN  IF made.raised THEN made
             ELSE [made EXCEPT !.created_paths = @ \cup {p}]

\* the file opened with mode 'a': an existing file keeps its content and the
\* new content follows it
WriteFileAppending(st, p, content) ==
    LET place == Resolve(st, p)
    IN  IF st.raised THEN st
        ELSE IF place \in st.dirs \/ Parent(place) \notin st.dirs
        THEN Raise(st)
        ELSE [st EXCEPT !.files =
                 [q \in DOMAIN @ \cup {place} |->
                     IF q # place THEN @[q]
                     ELSE IF place \in DOMAIN @ THEN [appended |-> <<@[place], content>>]
                     ELSE content]]

\* with open(path, 'w') as f: f.write(content)
WriteFile(st, p, content) ==
    LET place == Resolve(st, p)
    IN  IF st.raised THEN st
        ELSE IF place \in st.dirs \/ Parent(place) \notin st.dirs
        THEN Raise(st)
        ELSE [st EXCEPT !.files =
                 [q \in DOMAIN @ \cup {place} |-> IF q = place THEN content ELSE @[q]]]

-----------------------------------------------------------------------------
(* rojo_project_generator.RojoProjectGenerator *)

\* the class names of the model, as characters (a node without a Name
\* property is named after its class)
ClassChars ==
    [Workspace |-> <<"W","o","r","k","s","p","a","c","e">>,
     Folder    |-> <<"F","o","l","d","e","r">>,
     Part      |-> <<"P","a","r","t">>,
     Script    |-> <<"S","c","r","i","p","t">>,
     LocalScript  |-> <<"L","o","c","a","l","S","c","r","i","p","t">>,
     ModuleScript |-> <<"M","o","d","u","l","e","S","c","r","i","p","t">>,
     DataModel |-> <<"D","a","t","a","M","o","d","e","l">>,
     ServerScriptService |-> <<"S","e","r","v","e","r","S","c","r","i","p","t",
                               "S","e","r","v","i","c","e">>,
     Lighting  |-> <<"L","i","g","h","t","i","n","g">>]

\* instance['properties'].get('Name', instance_class), as characters
InstanceName(instance) ==
    IF DictHas(instance.properties, "Name")
    THEN DictGet(instance.properties, "Name").v
    ELSE ClassChars[instance.class]

\* every script written with the extension of a ModuleScript
ScriptExtensionPlain(class_name) == ".lua"

\* self.script_extensions.get(instance_class, '.lua')
ScriptExtension(class_name) ==
    CASE class_name = "Script"      -> ".server.lua"
      [] class_name = "LocalScript" -> ".client.lua"
      [] OTHER                      -> ".lua"

ScriptClasses == {"Script", "LocalScript", "ModuleScript"}

important_properties ==
    {"Anchored", "CanCollide", "CastShadow", "CollisionGroupId", "Massless",
     "Material", "Transparency", "Reflectance", "Locked",
     "Size", "CFrame", "Position", "Rotation", "RotVelocity", "Velocity",
     "BackgroundColor3", "BackgroundTransparency", "BorderColor3", "BorderSizePixel",
     "TextColor3", "Font", "TextSize", "Text", "TextWrapped", "TextXAlignment",
     "TextYAlignment", "Image", "ImageColor3", "ImageTransparency", "ScaleType",
     "Enabled", "Visible", "Value", "MaxValue", "MinValue", "Sound", "Volume", "Pitch",
     "CanBeDropped", "RequiresHandle", "Looped", "Playing", "TimePosition",
     "Ambient", "Brightness", "ColorShift_Bottom", "ColorShift_Top", "GlobalShadows",
     "OutdoorAmbient", "TimeOfDay", "FogColor", "FogEnd", "FogStart",
     "MeshId", "TextureId", "SoundId", "CollisionGroup", "AttachmentPoint", "PrimaryPart"}

\* the property names of the model that start with an underscore, and those
\* outside important_properties that end with Color3, Size, Offset or Position
UnderscoreNames == {"_Hidden", "_Size"}

SuffixNames == {"TintColor3", "CellSize", "StudsOffset", "WorldPosition", "_Size"}

\* lines 298-304: is the property copied to the meta file
IncludedProperty(prop_name) ==
    /\ prop_name # "Name"
    /\ prop_name \notin UnderscoreNames
    /\ prop_name \in important_properties \cup SuffixNames

ListV(m, keys) == [t |-> "list", v |-> [i \in 1..Len(keys) |-> m[keys[i]]]]

\* prop_value.get(key, default)
GetOr(m, key, default) == IF key \in DOMAIN m THEN m[key] ELSE default

\* lines 306-342: the value written for an included property
MetaValue(prop_value) ==
    IF prop_value.t = "map"
    THEN LET m == prop_value.v
         IN  IF {"R", "G", "B"} \subseteq DOMAIN m THEN ListV(m, <<"R", "G", "B">>)
             ELSE IF {"X", "Y", "Z"} \subseteq DOMAIN m THEN ListV(m, <<"X", "Y", "Z">>)
             ELSE IF {"X", "Y"} \subseteq DOMAIN m /\ Cardinality(DOMAIN m) = 2
                  THEN ListV(m, <<"X", "Y">>)
             ELSE IF {"X", "Y", "Z", "R00"} \subseteq DOMAIN m
                  THEN [t |-> "list",
                        v |-> <<m["X"], m["Y"], m["Z"],
                                GetOr(m, "R00", [t |-> "int", v |-> 1]),
                                GetOr(m, "R01", Zero), GetOr(m, "R02", Zero),
                                GetOr(m, "R10", Zero),
                                GetOr(m, "R11", [t |-> "int", v |-> 1]),
                                GetOr(m, "R12", Zero),
                                GetOr(m, "R20", Zero), GetOr(m, "R21", Zero),
                                GetOr(m, "R22", [t |-> "int", v |-> 1])>>]
             ELSE [t |-> "map",
                   v |-> [k \in {j \in DOMAIN m : j \notin UnderscoreNames} |-> m[k]]]
    ELSE prop_value

RECURSIVE MetaProperties(_)
\* lines 296-342: meta['properties'], a dict in the order of the node's own
MetaProperties(properties) ==
    IF properties = <<>> THEN <<>>
    ELSE (IF IncludedProperty(Head(properties).k)
          THEN <<[k |-> Head(properties).k, v |-> MetaValue(Head(properties).v)]>>
          ELSE <<>>) \o MetaProperties(Tail(properties))

\* a meta file for every node
always_create_meta_true(instance) == TRUE

\* lines 346: is the meta file written
always_create_meta(instance) ==
    instance.class # "Folder" \/ Len(MetaProperties(instance.properties)) > 0

\* pathlib's path / name: a segment "." is dropped, a segment ".." is kept
PathJoin(p, name) == IF name = "." THEN p ELSE Append(p, name)

\* _create_meta_file(instance, path)
CreateMetaFile(st, instance, path) ==
    LET meta      == [className |-> instance.class,
                      properties |-> MetaProperties(instance.properties)]
        meta_path == PathJoin(path, Join(normalize_name(InstanceName(instance)))
                                     \o ".meta.json")
        written   == WriteFile(st, meta_path, meta)
    IN  IF st.raised \/ ~always_create_meta(instance) THEN st
        ELSE IF written.raised THEN written
        ELSE [written EXCEPT !.created_paths = @ \cup {meta_path}]

\* the frame of a loop over the children of instance ref, which places them in path
Frame(ref, path, kind) == [inst |-> ref, path |-> path, idx |-> 1, kind |-> kind]

Push(st, frame) == IF st.raised THEN st ELSE [st EXCEPT !.stack = Append(@, frame)]

\* _create_script_file(instance, parent_path) up to its loop over the children
CreateScriptFile(st, instance, parent_path) ==
    LET instance_name == InstanceName(instance)
        source_code == IF DictHas(instance.properties, "Source")
                       THEN DictGet(instance.properties, "Source")
                       ELSE StrV(<<>>)
        file_name   == Join(normalize_name(instance_name))
                           \o ScriptExtension(instance.class)
        script_path == PathJoin(parent_path, file_name)
        written     == WriteFile(st, script_path, source_code)
        recorded    == IF written.raised THEN written
                       ELSE [written EXCEPT !.created_paths = @ \cup {script_path}]
        child_dir   == PathJoin(parent_path, Join(normalize_name(instance_name)))
    IN  IF instance.children # <<>>
        THEN Push(CreateMetaFile(recorded, instance, Parent(script_path)),
                  Frame(instance.referent, child_dir, "script"))
        ELSE recorded

\* the depth of nested calls at which Python raises RecursionError
MaxDepth == 5

\* where a call of _process_instance comes from: the phase of the run, the
\* instance whose children are looped over (None: the loop over the roots)
\* and the turn of that loop
Origin(phase, caller, turn) == [phase |-> phase, caller |-> caller, turn |-> turn]

\* _process_instance(instance, parent_path, is_root) up to its loop over the
\* children
ProcessInstance(st, instance, parent_path, is_root, origin) ==
    LET called == [st EXCEPT !.calls = Append(@,
                      [ref |-> instance.referent, parent |-> parent_path,
                       is_root |-> is_root, origin |-> origin])]
        dir_name      == Join(normalize_name(InstanceName(instance)))
        reused        == is_root /\ instance.class \in Range(parent_path)
        instance_path == IF reused THEN parent_path
                         ELSE PathJoin(parent_path, dir_name)
        made == IF reused THEN called
                ELSE MkdirIfAbsent(called, instance_path)
    IN  IF st.raised THEN st
        ELSE IF Len(st.stack) >= MaxDepth THEN Raise(called)
        ELSE IF instance.class \in ScriptClasses
        THEN CreateScriptFile(called, instance, parent_path)
        ELSE IF instance.children # <<>> \/ is_root \/ instance.properties # <<>>
        THEN Push(CreateMetaFile(made, instance, instance_path),
                  Frame(instance.referent, instance_path, "dir"))
        ELSE called

\* the "tree" of default.project.json, lines 89-149: [key, path, nested] with
\* "$className" equal to the key and path <<>> for an entry without "$path"
Service(key) == [key |-> key, path |-> <<"src", key>>, nested |-> <<>>]

ProjectTree ==
    <<Service("ReplicatedStorage"), Service("ServerScriptService"),
      Service("ServerStorage"), Service("StarterGui"), Service("StarterPack"),
      [key |-> "StarterPlayer", path |-> <<>>,
       nested |-> <<[key |-> "StarterPlayerScripts",
                     path |-> <<"src", "StarterPlayer", "StarterPlayerScripts">>,
                     nested |-> <<>>],
                    [key |-> "StarterCharacterScripts",
                     path |-> <<"src", "StarterPlayer", "StarterCharacterScripts">>,
                     nested |-> <<>>]>>],
      Service("Workspace"), Service("Lighting"), Service("SoundService"),
      Service("ReplicatedFirst"), Service("Players"), Service("Chat"),
      Service("LocalizationService"), Service("TestService"),
      Service("MarketplaceService"), Service("HttpService")>>

RECURSIVE CreateStandardDirectoriesFlat(_, _, _)
\* the nested entries of the tree left out
CreateStandardDirectoriesFlat(st, tree, base_path) ==
    IF tree = <<>> THEN st
    ELSE LET value == Head(tree)
             made  == IF value.path # <<>>
                      THEN MkdirIfAbsent(st, base_path \o value.path)
                      ELSE st
         IN  CreateStandardDirectoriesFlat(made, Tail(tree), base_path)

RECURSIVE CreateStandardDirectories(_, _, _)
\* _create_standard_directories(tree, base_path)
CreateStandardDirectories(st, tree, base_path) ==
    IF tree = <<>> THEN st
    ELSE LET value == Head(tree)
             made  == IF value.path # <<>>
                      THEN MkdirIfAbsent(st, base_path \o value.path)
                      ELSE st
         IN  CreateStandardDirectories(
                 CreateStandardDirectories(made, value.nested, base_path),
                 Tail(tree), base_path)

\* _generate_project_json()
GenerateProjectJson(st, output_dir) ==
    LET project == [name |-> game_data.name, tree |-> ProjectTree]
    IN  CreateStandardDirectories(
            WriteFile(st, PathJoin(output_dir, "default.project.json"), project),
            ProjectTree, output_dir)

\* the file system and the generator, as the record the operations work on
St ==
    [dirs |-> dirs, files |-> files, created_paths |-> created_paths,
     raised |-> FALSE, calls |-> calls, stack |-> stack]

\* the operations' result takes effect; an exception ends the run in main's
\* except clause with status 1, otherwise the run goes on at next_pc
Commit(st, next_pc) ==
    /\ dirs' = st.dirs
    /\ files' = st.files
    /\ created_paths' = st.created_paths
    /\ calls' = st.calls
    /\ stack' = st.stack
    /\ IF st.raised THEN ExitWith(1) ELSE pc' = next_pc /\ UNCHANGED exit_code
    /\ UNCHANGED readonly

SrcDir == PathJoin(args.output_dir, "src")

\* generate_project, lines 31-45
GenerateStart ==
    /\ pc = "generate"
    /\ LET made == IF Exists(St, SrcDir) THEN St ELSE Mkdir(St, SrcDir)
       IN  Commit(GenerateProjectJson(made, args.output_dir), "roots")
    /\ workspace_path' = NoPath
    /\ workspace_instance' = None
    /\ root_idx' = 1
    /\ UNCHANGED <<normVars, args, doc, parserVars, runVars>>

\* generate_project, lines 48-67: one root instance
RootStep ==
    /\ pc = "roots"
    /\ stack = <<>>
    /\ root_idx <= Len(root_instances)
    /\ LET ref_id   == root_instances[root_idx]
           instance == DictGet(instances, ref_id)
           ws_path  == PathJoin(SrcDir, "Workspace")
       IN  IF instance.class = "Workspace"
           THEN /\ workspace_instance' = ref_id
                /\ workspace_path' = ws_path
                /\ Commit(CreateMetaFile(MkdirIfAbsent(St, ws_path), instance, ws_path),
                          "roots")
           ELSE /\ Commit(ProcessInstance(St, instance, SrcDir, TRUE,
                                           Origin("roots", None, root_idx)), "roots")
                /\ UNCHANGED <<workspace_instance, workspace_path>>
    /\ root_idx' = root_idx + 1
    /\ UNCHANGED <<normVars, args, doc, parserVars, runVars>>

\* one turn of the innermost loop over children under way: lines 213-216 of
\* _process_instance, 247-254 of _create_script_file, 72-77 of
\* generate_project, 175-182 of main
Recurse ==
    /\ pc \in {"roots", "workspace", "fallback"}
    /\ stack # <<>>
    /\ LET frame    == stack[Len(stack)]
           children == DictGet(instances, frame.inst).children
           rest     == SubSeq(stack, 1, Len(stack) - 1)
           advanced == [St EXCEPT !.stack = Append(rest, [frame EXCEPT !.idx = @ + 1])]
           child    == DictGet(instances, children[frame.idx])
           placed   == IF frame.kind = "script"
                       THEN MkdirIfAbsent(advanced, frame.path)
                       ELSE advanced
       IN  IF frame.idx > Len(children)
           THEN Commit([St EXCEPT !.stack = rest], pc)
           ELSE Commit(ProcessInstance(placed, child, frame.path, FALSE,
                                       Origin(pc, frame.inst, frame.idx)), pc)
    /\ UNCHANGED <<normVars, args, doc, parserVars, runVars,
                   workspace_instance, workspace_path, root_idx>>

\* generate_project, lines 69-77: the loop over the roots is over
RootsDone ==
    /\ pc = "roots"
    /\ stack = <<>>
    /\ root_idx > Len(root_instances)
    /\ IF workspace_instance # None /\ workspace_path # NoPath
       THEN Commit(Push(St, Frame(workspace_instance, workspace_path, "ws")), "workspace")
       ELSE Commit(St, "workspace")
    /\ UNCHANGED <<normVars, args, doc, parserVars, runVars,
                   workspace_instance, workspace_path, root_idx>>

\* main, lines 141-149: the first root instance of class Workspace, else None
WorkspaceRef ==
    LET hits == {i \in 1..Len(root_instances) :
                    DictGet(instances, root_instances[i]).class = "Workspace"}
    IN  IF hits = {} THEN None
        ELSE root_instances[CHOOSE i \in hits : \A j \in hits : i <= j]

\* generate_project has returned; main, lines 161-182: the Workspace
\* directory is looked at and its children are processed again if it is empty
Verify ==
    /\ pc = "workspace"
    /\ stack = <<>>
    /\ LET ws_path == args.output_dir \o <<"src", "Workspace">>
           empty   == \A p \in dirs \cup DOMAIN files : p = <<>> \/ Parent(p) # ws_path
       IN  IF /\ Exists(St, ws_path) /\ empty
              /\ WorkspaceRef # None
              /\ Len(DictGet(instances, WorkspaceRef).children) > 0
           THEN Commit(Push(St, Frame(WorkspaceRef, ws_path, "main")), "fallback")
           ELSE Commit(St, "fallback")
    /\ UNCHANGED <<normVars, args, doc, parserVars, runVars,
                   workspace_instance, workspace_path, root_idx>>

\* main, lines 184-194: the conversion is complete, exit status 0
Finish ==
    /\ pc = "fallback"
    /\ stack = <<>>
    /\ ExitWith(0)
    /\ UNCHANGED <<normVars, args, doc, fsVars, parserVars, genVars, runVars>>

\* validate_arguments without the check of the extension
InputRefusedAbsentOnly(input_file) == input_file = "absent"

\* validate_arguments, lines 83-90: the input is no file, or no .rbxlx file
InputRefused(input_file) == input_file \in {"absent", "wrongext"}

\* validate_arguments(args) and main, lines 113-127
ValidateArguments ==
    /\ pc = "validate"
    /\ LET output_dir == args.output_dir
           made == Mkdir(St, output_dir)
       IN  IF args.version
           THEN ExitWith(0) /\ UNCHANGED dirs
           ELSE IF InputRefused(args.input_file)
           THEN ExitWith(1) /\ UNCHANGED dirs
           ELSE IF ~Exists(St, output_dir)
           THEN IF made.raised
                THEN ExitWith(1) /\ UNCHANGED dirs
                ELSE dirs' = made.dirs /\ pc' = "pass1" /\ UNCHANGED exit_code
           ELSE IF output_dir \notin dirs \/ output_dir \in readonly
           THEN ExitWith(1) /\ UNCHANGED dirs
           ELSE pc' = "pass1" /\ UNCHANGED <<exit_code, dirs>>
    /\ UNCHANGED <<normVars, args, doc, files, readonly, parserVars, genVars, runVars>>

\* the conversion is run a second time on the directory the first run left:
\* the same file parses to the same game_data, a new RojoProjectGenerator
\* emits it
Rerun ==
    /\ pc = "done"
    /\ run = 1
    /\ game_data # NoData
    /\ run' = 2
    /\ first_output' = [dirs |-> dirs, files |-> files]
    /\ pc' = "generate"
    /\ exit_code' = Running
    /\ created_paths' = {}
    /\ calls' = <<>>
    /\ stack' = <<>>
    /\ UNCHANGED <<normVars, args, doc, fsVars, parserVars, out_before,
                   workspace_instance, workspace_path, root_idx>>

\* an output directory whose name is the class of a service
OtherOutputDir == <<"Lighting">>

\* what the directory root holds: the places of the directories and files
\* below it, relative to it, and the files' contents
Layout(root) ==
    LET below(S) == {p \in S : Len(p) > Len(root) /\ SubSeq(p, 1, Len(root)) = root}
        rel(p)   == SubSeq(p, Len(root) + 1, Len(p))
    IN  [dirs  |-> {rel(p) : p \in below(dirs)},
         files |-> [q \in {rel(p) : p \in below(DOMAIN files)} |-> files[root \o q]]]

\* the conversion has ended well and is run a second time with another
\* output directory, which validate_arguments creates: the same file parses
\* to the same game_data, a new RojoProjectGenerator emits it
RerunElsewhere ==
    /\ pc = "done"
    /\ run = 1
    /\ game_data # NoData
    /\ exit_code = 0
    /\ run' = 3
    /\ first_output' = Layout(args.output_dir)
    /\ args' = [args EXCEPT !.output_dir = OtherOutputDir]
    /\ dirs' = dirs \cup {OtherOutputDir}
    /\ pc' = "generate"
    /\ exit_code' = Running
    /\ created_paths' = {}
    /\ calls' = <<>>
    /\ stack' = <<>>
    /\ UNCHANGED <<normVars, doc, files, readonly, parserVars, out_before,
                   workspace_instance, workspace_path, root_idx>>

-----------------------------------------------------------------------------
(* The inputs of the model *)

\* the largest number of Item elements of a document
MaxItems == 3

StringProp(name, text) == [name |-> name, tag |-> "string", text |-> text, subs |-> <<>>]

\* what an Item element can be: its class attribute and its Properties
NoClassItem == [class |-> "", props |-> <<>>]

WorkspaceItem == [class |-> "Workspace", props |-> <<>>]

FolderItem == [class |-> "Folder", props |-> <<>>]

PartItem ==
    [class |-> "Part",
     props |-> <<StringProp("Name", <<"a">>),
                 [name |-> "Anchored", tag |-> "bool", text |-> TrueText, subs |-> <<>>]>>]

ScriptItem ==
    [class |-> "Script",
     props |-> <<StringProp("Name", <<"a">>),
                 [name |-> "Source", tag |-> "ProtectedString",
                  text |-> <<"Y","Q","=","=">>, subs |-> <<>>]>>]

\* a Part whose name is the file name of the script above
DottedItem ==
    [class |-> "Part",
     props |-> <<StringProp("Name", <<"a",".","s","e","r","v","e","r",".","l","u","a">>)>>]

ItemKinds == {WorkspaceItem, FolderItem, PartItem, ScriptItem, DottedItem}

RECURSIVE AncestorsOrSelf(_, _)
AncestorsOrSelf(pars, i) ==
    IF i = 0 THEN {} ELSE {i} \cup AncestorsOrSelf(pars, pars[i])

RECURSIVE Shapes(_)
\* the nestings of n elements: element i + 1 is a child of the root element,
\* of element i or of one of the elements that contain element i
Shapes(n) ==
    IF n = 0 THEN {<<>>}
    ELSE UNION {{Append(pars, q) : q \in {0} \cup AncestorsOrSelf(pars, Len(pars))} :
                    pars \in Shapes(n - 1)}

RefName(x) == IF x = 0 THEN "" ELSE "r" \o ToString(x)

UniqueRefs(n) == [i \in 1..n |-> RefName(i)]

RECURSIVE RefChoices(_)
\* referent attributes that may be missing or repeat: each element has no
\* referent, a referent seen before, or the next new one
RefChoices(n) ==
    IF n = 0 THEN {<<>>}
    ELSE UNION {{Append(rs, x) : x \in 0..(Cardinality(Range(rs) \ {0}) + 1)} :
                    rs \in RefChoices(n - 1)}

MakeItems(pars, refs, kinds) ==
    [i \in 1..Len(pars) |->
        [par |-> pars[i], ref |-> refs[i], class |-> kinds[i].class, props |-> kinds[i].props]]

\* documents of n elements whose referents are all present and distinct
PlainDocsOf(n) ==
    {[items |-> MakeItems(pars, UniqueRefs(n), kinds), bad |-> 0] :
        pars \in Shapes(n), kinds \in [1..n -> ItemKinds]}

\* the largest number of Item elements of a document whose referents may be
\* missing or repeat
MaxOddItems == 4

\* the largest number of Item elements of a malformed document, and of one
\* with elements that have no class attribute
MaxBadItems == 2

\* documents of n Parts whose referents may be missing or repeat
OddDocsOf(n) ==
    {[items |-> MakeItems(pars, [i \in 1..n |-> RefName(rs[i])], [i \in 1..n |-> PartItem]),
      bad |-> 0] : pars \in Shapes(n), rs \in RefChoices(n)}

\* documents of n elements with malformed markup: the k-th 'end' event of
\* the first pass cannot be delivered
BadDocsOf(n) == {[d EXCEPT !.bad = k] : d \in OddDocsOf(n), k \in 1..(n + 1)}

\* the largest number of Item elements of a document of DataModel and
\* Workspace elements with and without a Name
MaxNamedItems == 2

DataModelItem == [class |-> "DataModel", props |-> <<>>]

NamedDataModelItem == [class |-> "DataModel", props |-> <<StringProp("Name", <<"g">>)>>]

NamedWorkspaceItem == [class |-> "Workspace", props |-> <<StringProp("Name", <<"w">>)>>]

\* documents of n DataModel and Workspace elements
NamedDocsOf(n) ==
    {[items |-> MakeItems(pars, UniqueRefs(n), kinds), bad |-> 0] :
        pars \in Shapes(n),
        kinds \in [1..n -> {DataModelItem, NamedDataModelItem,
                            WorkspaceItem, NamedWorkspaceItem}]}

LightingItem == [class |-> "Lighting", props |-> <<>>]

BaseplateItem ==
    [class |-> "Part",
     props |-> <<StringProp("Name", <<"B","a","s","e","p","l","a","t","e">>)>>]

ServiceItem == [class |-> "ServerScriptService", props |-> <<>>]

MainScriptItem ==
    [class |-> "Script",
     props |-> <<StringProp("Name", <<"M","a","i","n">>),
                 [name |-> "Source", tag |-> "ProtectedString",
                  text |-> <<"p","r","i","n","t","(","'","h","i","'",")">>,
                  subs |-> <<>>]>>]

\* a second script Main, with a source of its own
OtherScriptItem ==
    [class |-> "Script",
     props |-> <<StringProp("Name", <<"M","a","i","n">>),
                 [name |-> "Source", tag |-> "ProtectedString",
                  text |-> <<"p","r","i","n","t","(","'","y","o","'",")">>,
                  subs |-> <<>>]>>]

\* a Part with a CFrame: a position and the nine components of a rotation
CFrameItem ==
    [class |-> "Part",
     props |-> <<StringProp("Name", <<"a">>),
                 [name |-> "CFrame", tag |-> "CoordinateFrame", text |-> <<>>,
                  subs |-> <<[tag |-> "X", text |-> <<"1">>],
                             [tag |-> "Y", text |-> <<"2">>],
                             [tag |-> "Z", text |-> <<"3">>],
                             [tag |-> "R00", text |-> <<"0">>],
                             [tag |-> "R01", text |-> <<"0">>],
                             [tag |-> "R02", text |-> <<"1">>],
                             [tag |-> "R10", text |-> <<"0">>],
                             [tag |-> "R11", text |-> <<"1">>],
                             [tag |-> "R12", text |-> <<"0">>],
                             [tag |-> "R20", text |-> <<"-","1">>],
                             [tag |-> "R21", text |-> <<"0">>],
                             [tag |-> "R22", text |-> <<"0">>]>>]>>]

\* a Folder with a property that goes to the meta file, and one with none
ValueFolderItem ==
    [class |-> "Folder",
     props |-> <<StringProp("Name", <<"a">>), StringProp("Value", <<"a">>)>>]

NamedFolderItem ==
    [class |-> "Folder",
     props |-> <<StringProp("Name", <<"a">>), StringProp("_Hidden", <<"a">>)>>]

\* a place with a Baseplate; a script in a service; Parts and Folders in a
\* Workspace and as roots
ScenarioDocs ==
    {[items |-> MakeItems(pars, UniqueRefs(Len(pars)), kinds), bad |-> 0] :
        <<pars, kinds>> \in
            {<<<<0, 1, 2>>, <<DataModelItem, WorkspaceItem, BaseplateItem>>>>,
             <<<<0, 1>>, <<WorkspaceItem, BaseplateItem>>>>,
             <<<<0, 1>>, <<ServiceItem, MainScriptItem>>>>,
             <<<<0, 1, 2>>, <<ServiceItem, MainScriptItem, MainScriptItem>>>>,
             <<<<0, 1, 1>>, <<ServiceItem, MainScriptItem, OtherScriptItem>>>>,
             <<<<0, 1>>, <<LightingItem, PartItem>>>>,
             <<<<0, 1, 0>>, <<WorkspaceItem, CFrameItem, CFrameItem>>>>,
             <<<<0, 1, 1>>, <<WorkspaceItem, ValueFolderItem, NamedFolderItem>>>>,
             <<<<0, 1, 0>>, <<ValueFolderItem, FolderItem, NamedFolderItem>>>>}}

\* the largest number of Item elements of a document of Parts named "." and
\* ".."
MaxDotItems == 2

\* Parts whose names are the directory itself and the directory above
DotItem == [class |-> "Part", props |-> <<StringProp("Name", <<".">>)>>]

DotDotItem == [class |-> "Part", props |-> <<StringProp("Name", <<".", ".">>)>>]

\* documents of n Parts some of which are named "." or ".."
DotDocsOf(n) ==
    {[items |-> MakeItems(pars, UniqueRefs(n), kinds), bad |-> 0] :
        pars \in Shapes(n), kinds \in [1..n -> {DotItem, DotDotItem, PartItem}]}

\* documents of n elements some of which have no class attribute
ClasslessDocsOf(n) ==
    {[items |-> MakeItems(pars, UniqueRefs(n), kinds), bad |-> 0] :
        pars \in Shapes(n), kinds \in [1..n -> {NoClassItem, PartItem}]}

OutputDir == <<"out">>

OutputStates == {"absent", "dir", "file", "readonly", "uncreatable"}

DirsBefore(out) == IF out \in {"dir", "readonly"} THEN {<<>>, OutputDir} ELSE {<<>>}

FilesBefore(out) == IF out = "file" THEN [p \in {OutputDir} |-> StrV(<<>>)] ELSE <<>>

InitFs(out) ==
    /\ out_before = out
    /\ dirs = DirsBefore(out)
    /\ files = FilesBefore(out)
    /\ readonly = CASE out = "readonly"    -> {OutputDir}
                    [] out = "uncreatable" -> {<<>>}
                    [] OTHER               -> {}

InitRun ==
    /\ exit_code = Running
    /\ instances = <<>>
    /\ child_instances = {}
    /\ root_instances = <<>>
    /\ p1 = 1
    /\ p2 = 1
    /\ game_data = NoData
    /\ created_paths = {}
    /\ workspace_instance = None
    /\ workspace_path = NoPath
    /\ root_idx = 1
    /\ stack = <<>>
    /\ calls = <<>>
    /\ run = 1
    /\ first_output = NoData

NormOff ==
    /\ npc = "off"
    /\ name_in = <<>>
    /\ normalized = <<>>
    /\ renormalized = <<>>

\* a conversion of a readable file, or a command line that is refused
Init ==
    /\ NormOff
    /\ InitRun
    /\ pc = "validate"
    /\ \/ /\ args = [version |-> FALSE, input_file |-> "ok", output_dir |-> OutputDir]
          /\ \/ \E n \in 0..MaxItems : doc \in PlainDocsOf(n)
             \/ \E n \in 0..MaxOddItems : doc \in OddDocsOf(n)
             \/ \E n \in 0..MaxBadItems : doc \in BadDocsOf(n) \cup ClasslessDocsOf(n)
             \/ \E n \in 0..MaxNamedItems : doc \in NamedDocsOf(n)
             \/ \E n \in 0..MaxDotItems : doc \in DotDocsOf(n)
             \/ doc \in ScenarioDocs
          /\ InitFs("absent")
       \/ /\ args \in [version : BOOLEAN,
                       input_file : {"ok", "absent", "wrongext", "unreadable"},
                       output_dir : {OutputDir}]
          /\ doc = [items |-> MakeItems(<<0>>, UniqueRefs(1), <<PartItem>>), bad |-> 0]
          /\ \E out \in OutputStates : InitFs(out)

Next ==
    \/ ValidateArguments
    \/ Pass1Item
    \/ ParseRaises
    \/ Pass1End
    \/ Pass2Item
    \/ DetermineRoots
    \/ GenerateStart
    \/ RootStep
    \/ Recurse
    \/ RootsDone
    \/ Verify
    \/ Finish
    \/ Rerun
    \/ RerunElsewhere

Spec == Init /\ [][Next]_vars

-----------------------------------------------------------------------------
(* The parser on documents of one Item with one property element, drawn    *)
(* over every type tag the decoder knows and one it does not.              *)

DecodeTags ==
    {"string", "int", "int64", "float", "double", "bool", "Content", "BinaryString",
     "ProtectedString", "UniqueId", "SecurityCapabilities", "Ref", "token",
     "Color3", "Color3uint8", "Vector2", "Vector3", "CFrame", "CoordinateFrame",
     "PhysicalProperties", "OptionalCoordinateFrame"}

DecodeTexts ==
    {<<>>, <<"T","r","u","e">>, <<" ","t","r","u","e"," ">>, <<"T","R","U","E">>,
     <<" ","1","2">>, <<"-","1",".","5","0">>, <<"x">>, <<"Y","Q","=","=">>, <<"Y","Q">>}

Sub(tag, text) == [tag |-> tag, text |-> text]

DecodeSubs ==
    {<<>>,
     <<Sub("R", <<"1">>), Sub("G", <<"0",".","5">>), Sub("B", <<>>)>>,
     <<Sub("R", <<"1">>), Sub("G", <<"1">>)>>,
     <<Sub("X", <<"1">>), Sub("Y", <<"2">>), Sub("Z", <<"3">>)>>,
     <<Sub("X", <<"1">>), Sub("Y", <<"x">>)>>,
     <<Sub("X", <<"1">>), Sub("Y", <<"2">>), Sub("Z", <<"3">>), Sub("R00", <<"1">>)>>,
     <<Sub("CustomPhysics", <<"t","r","u","e">>)>>,
     <<Sub("CustomPhysics", <<>>)>>}

DecodeProps == [name : {"Value"}, tag : DecodeTags, text : DecodeTexts, subs : DecodeSubs]

InitDecode ==
    /\ NormOff
    /\ InitRun
    /\ pc = "validate"
    /\ args = [version |-> FALSE, input_file |-> "ok", output_dir |-> OutputDir]
    /\ \E prop \in DecodeProps :
          doc = [items |-> <<[par |-> 0, ref |-> "r1", class |-> "Part", props |-> <<prop>>]>>,
                 bad |-> 0]
    /\ InitFs("dir")

NextDecode ==
    \/ ValidateArguments
    \/ Pass1Item
    \/ Pass1End
    \/ Pass2Item
    \/ DetermineRoots

SpecDecode == InitDecode /\ [][NextDecode]_vars

-----------------------------------------------------------------------------
(* Harness for the pure function normalize_name: Init draws the name, the  *)
(* actions apply normalize_name once and then to its own result.           *)

MaxNameLen == 3

NameAlphabet == {"a", "_", " ", "#", "."}

RECURSIVE SeqsUpTo(_, _)
SeqsUpTo(S, n) ==
    IF n = 0 THEN {<<>>}
    ELSE LET shorter == SeqsUpTo(S, n - 1)
         IN  shorter \cup {Append(s, c) : s \in {t \in shorter : Len(t) = n - 1}, c \in S}

Names == SeqsUpTo(NameAlphabet, MaxNameLen)

InitNorm ==
    /\ npc = "start"
    /\ name_in \in Names
    /\ normalized = <<>>
    /\ renormalized = <<>>
    /\ InitRun
    /\ pc = "off"
    /\ args = [version |-> FALSE, input_file |-> "ok", output_dir |-> OutputDir]
    /\ doc = [items |-> <<>>, bad |-> 0]
    /\ InitFs("absent")

Normalize ==
    /\ npc = "start"
    /\ normalized' = normalize_name(name_in)
    /\ npc' = "once"
    /\ UNCHANGED <<name_in, renormalized>>
    /\ UNCHANGED <<pc, exit_code, args, doc, fsVars, parserVars, genVars, runVars>>

NormalizeAgain ==
    /\ npc = "once"
    /\ renormalized' = normalize_name(normalized)
    /\ npc' = "twice"
    /\ UNCHANGED <<name_in, normalized>>
    /\ UNCHANGED <<pc, exit_code, args, doc, fsVars, parserVars, genVars, runVars>>

NextNorm == Normalize \/ NormalizeAgain

SpecNorm == InitNorm /\ [][NextNorm]_vars

\* C4: normalize_name is idempotent: normalizing the result of normalize_name
\* gives that result again, for every input name.
C4_NormalizeIdempotent == npc = "twice" => renormalized = normalized

\* C5: normalize_name(s) is non-empty, contains only letters, digits and
\* -_.() and space, has no leading or trailing underscore and no leading or
\* trailing whitespace, and is exactly "unnamed" when stripping leaves nothing.
C5_NormalizedShape ==
    npc \in {"once", "twice"} =>
        /\ normalized # <<>>
        /\ Range(normalized) \subseteq valid_chars
        /\ Head(normalized) \notin ({"_"} \cup Whitespace)
        /\ normalized[Len(normalized)] \notin ({"_"} \cup Whitespace)
        /\ (Strip(Strip(ReplaceInvalid(name_in), {"_"}), Whitespace) = <<>>
                => normalized = Unnamed)

-----------------------------------------------------------------------------
(* Properties of the parser *)

Parsed == game_data # NoData

Node(ref) == DictGet(instances, ref)

Keys == Range(DictKeys(instances))

\* C1: after parse() returns, every id in a node's children is a key of the
\* node map and the node stored under it has that node as its parent, for
\* every document, also when a referent appears on more than one Item.
C1_HierarchyConsistent ==
    Parsed => \A n \in Keys : \A c \in Range(Node(n).children) :
                  c \in Keys /\ Node(c).parent = n

\* C2: after parse() returns, a node is in root_instances if and only if no
\* other node's children list contains it and its parent is unset, and no
\* node is listed twice.
C2_RootPredicateExact ==
    Parsed =>
        /\ \A n \in Keys :
              n \in Range(root_instances) <=>
                  /\ \A m \in Keys \ {n} : n \notin Range(Node(m).children)
                  /\ Node(n).parent = None
        /\ Range(root_instances) \subseteq Keys
        /\ \A i, j \in 1..Len(root_instances) :
              root_instances[i] = root_instances[j] => i = j

\* a document with a repeated referent has been parsed into roots and
\* children
C2_Witness ==
    /\ Parsed
    /\ \E i, j \in 1..Len(doc.items) : i # j /\ doc.items[i].ref = doc.items[j].ref
    /\ root_instances # <<>>
    /\ \E n \in Keys : Node(n).parent # None

\* the referents, in document order, of the Item elements that are direct
\* children of an Item element carrying referent n and are in the node map
DocumentChildren(n) ==
    LET kids == SortedSeq({j \in 1..Len(doc.items) :
                    /\ doc.items[j].par # 0
                    /\ doc.items[doc.items[j].par].ref = n
                    /\ doc.items[j].ref \in Keys})
    IN  [k \in 1..Len(kids) |-> doc.items[kids[k]].ref]

\* C3: children order is preserved end to end: after parse() a node's
\* children are its direct Item child elements in document order, and every
\* loop over a node's children calls _process_instance on them in that order
\* (its k-th turn places the k-th child).
C3_ChildrenOrder ==
    /\ Parsed => \A n \in Keys : Node(n).children = DocumentChildren(n)
    /\ \A i \in 1..Len(calls) :
          calls[i].origin.caller # None =>
              /\ calls[i].origin.turn <= Len(Node(calls[i].origin.caller).children)
              /\ calls[i].ref = Node(calls[i].origin.caller).children[calls[i].origin.turn]

-----------------------------------------------------------------------------
(* Properties of the emitter and of the run *)

WorkspaceRoots ==
    {root_instances[i] : i \in {j \in 1..Len(root_instances) :
                                   Node(root_instances[j]).class = "Workspace"}}

WorkspaceDir == args.output_dir \o <<"src", "Workspace">>

\* generate_project has returned
Generated == pc = "fallback" \/ (pc = "done" /\ exit_code = 0)

\* the calls of the second pass over the children of w
SecondPass(w) ==
    SelectSeq(calls, LAMBDA c : c.origin.phase = "workspace" /\ c.origin.caller = w)

\* C6: when generate_project meets a root of class Workspace it creates
\* src/Workspace and the sidecar at once, calls _process_instance on none of
\* its children before the loop over the roots has finished, and afterwards
\* on each of them, in children order, with parent src/Workspace and
\* is_root = false.
C6_WorkspaceDeferred ==
    /\ \A i \in 1..Len(root_instances) :
          /\ pc \in {"roots", "workspace", "fallback"}
          /\ i < root_idx
          /\ root_instances[i] \in WorkspaceRoots
          => /\ WorkspaceDir \in dirs
             /\ PathJoin(WorkspaceDir,
                    Join(normalize_name(InstanceName(Node(root_instances[i]))))
                        \o ".meta.json") \in DOMAIN files
    /\ \A i \in 1..Len(calls) : \A w \in WorkspaceRoots :
          calls[i].origin.phase = "roots" => calls[i].ref \notin Range(Node(w).children)
    /\ Generated =>
          \A w \in WorkspaceRoots :
              /\ [k \in 1..Len(SecondPass(w)) |-> SecondPass(w)[k].ref] = Node(w).children
              /\ \A k \in 1..Len(SecondPass(w)) :
                    /\ SecondPass(w)[k].parent = WorkspaceDir
                    /\ ~SecondPass(w)[k].is_root

\* C7: if the markup is malformed, parse() raises and returns no game_data,
\* the run ends with status 1 and nothing is emitted: generate_project is
\* never entered, no file is written and no directory but the output
\* directory itself exists.
C7_MalformedAborts ==
    doc.bad # 0 =>
        /\ ~Parsed
        /\ pc \in {"validate", "pass1", "done"}
        /\ pc = "done" => exit_code = 1
        /\ calls = <<>>
        /\ files = FilesBefore(out_before)
        /\ dirs \subseteq DirsBefore(out_before) \cup {args.output_dir}

\* the parser met the malformed markup after it had registered instances
C7_Witness ==
    /\ doc.bad > 1
    /\ instances # <<>>
    /\ pc = "done"
    /\ exit_code = 1

\* C8 as stated: when the input path is absent, unreadable or has the wrong
\* extension the run exits with non-zero status and the output directory is
\* not created, and no directory or manifest is created before parsing has
\* succeeded.
C8_NoOutputBeforeParse ==
    ~args.version =>
        /\ args.input_file \in {"absent", "unreadable", "wrongext"} =>
              /\ pc = "done" => exit_code = 1
              /\ dirs = DirsBefore(out_before)
        /\ ~Parsed => dirs = DirsBefore(out_before) /\ files = FilesBefore(out_before)

\* C8, amended: in a run without --version, an absent input path or one
\* with the wrong extension ends the run with status 1 and nothing is
\* created, the output directory included; an input that cannot be read ends
\* the run with status 1 too, without game_data; and before parse() has
\* returned nothing is created but the output directory itself (by
\* validate_arguments): no src directory, no manifest, no file.
C8_NoOutputBeforeParseAmended ==
    ~args.version =>
        /\ args.input_file \in {"absent", "wrongext"} =>
              /\ pc = "done" => exit_code = 1
              /\ pc \in {"validate", "done"}
              /\ dirs = DirsBefore(out_before)
              /\ files = FilesBefore(out_before)
        /\ args.input_file = "unreadable" =>
              /\ pc = "done" => exit_code = 1
              /\ ~Parsed
        /\ ~Parsed =>
              /\ files = FilesBefore(out_before)
              /\ dirs \subseteq DirsBefore(out_before) \cup Prefixes(args.output_dir)

\* an unreadable input has ended the run after the output directory was made
C8_Witness ==
    /\ ~args.version
    /\ args.input_file = "unreadable"
    /\ out_before = "absent"
    /\ pc = "done"
    /\ exit_code = 1
    /\ args.output_dir \in dirs

\* C9: a decode error in a property never aborts the parse: a run on a
\* readable, well-formed document does not end before parse() has returned
\* its game_data.
C9_DecodeNeverAborts ==
    /\ ~args.version
    /\ args.input_file = "ok"
    /\ doc.bad = 0
    /\ out_before \in {"absent", "dir"}
    /\ pc = "done"
    => Parsed

\* C10: generate_project run a second time with the same game_data on the
\* output of the first run leaves exactly the directories and files, with
\* the same contents, that the first run left.
C10_EmissionIdempotent ==
    /\ run = 2
    /\ pc = "done" \/ pc = "fallback" \/ (pc = "workspace" /\ stack = <<>>)
    => [dirs |-> dirs, files |-> files] = first_output

\* the second run has ended well after it wrote a script file and placed
\* several instances
C10_Witness ==
    /\ run = 2
    /\ pc = "done"
    /\ exit_code = 0
    /\ Len(calls) >= 2
    /\ args.output_dir \o <<"src", "a.server.lua">> \in DOMAIN files

-----------------------------------------------------------------------------
(* Properties of single scenarios and of the placement rule *)

\* the named documents: a DataModel root with a Workspace with the Part
\* Baseplate in it
BaseplateDoc ==
    /\ Len(doc.items) = 3
    /\ doc.bad = 0
    /\ [i \in 1..3 |-> doc.items[i].par] = <<0, 1, 2>>
    /\ [i \in 1..3 |-> doc.items[i].class] = <<"DataModel", "Workspace", "Part">>
    /\ \A i \in 1..3 : doc.items[i].ref = RefName(i)
    /\ doc.items[3].props = <<StringProp("Name", <<"B","a","s","e","p","l","a","t","e">>)>>

IsPrefix(p, q) == Len(p) <= Len(q) /\ SubSeq(q, 1, Len(p)) = p

\* C11: for the document DataModel > Workspace > Part "Baseplate" the
\* output of a completed run has the directory src/Workspace, a file
\* Baseplate.meta.json in it or below it, and no script file for the Part.
C11_BaseplateScenario ==
    BaseplateDoc /\ Generated =>
        /\ WorkspaceDir \in dirs
        /\ \E p \in DOMAIN files :
              /\ IsPrefix(WorkspaceDir, p)
              /\ p[Len(p)] = "Baseplate.meta.json"
        /\ \A p \in DOMAIN files :
              p[Len(p)] \notin {"Baseplate.lua", "Baseplate.server.lua", "Baseplate.client.lua"}

\* the call of the placement rule that the step makes
NewCall == calls'[Len(calls')]

\* the step calls the placement rule and no exception leaves it
Placed == Len(calls') = Len(calls) + 1 /\ pc' # "done"

NameToken(node) == Join(normalize_name(InstanceName(node)))

C13_ScriptWithChildren ==
    Generated =>
        \A i \in 1..Len(calls) :
            LET node == Node(calls[i].ref)
                d    == Append(calls[i].parent, NameToken(node))
                meta == Append(d, NameToken(node) \o ".meta.json")
            IN  node.class \in ScriptClasses /\ node.children # <<>> =>
                    /\ d \in dirs
                    /\ meta \in DOMAIN files
                    /\ DOMAIN files[meta] = {"className", "properties"}
                    /\ files[meta].className = node.class
                    /\ \A k \in 1..Len(node.children) :
                          \E j \in (i + 1)..Len(calls) :
                              /\ calls[j].ref = node.children[k]
                              /\ calls[j].parent = d
                              /\ ~calls[j].is_root

\* the sidecars that the output holds for node n: the meta files of its
\* name and class
SidecarsOf(n) ==
    {p \in DOMAIN files :
        /\ p[Len(p)] = NameToken(Node(n)) \o ".meta.json"
        /\ DOMAIN files[p] = {"className", "properties"}
        /\ files[p].className = Node(n).class}

\* the included properties of node n whose value is a transform record: a
\* map with the position X, Y, Z and the rotation component R00
TransformsOf(n) ==
    {i \in 1..Len(Node(n).properties) :
        LET prop == Node(n).properties[i]
        IN  /\ IncludedProperty(prop.k)
            /\ prop.v.t = "map"
            /\ {"X", "Y", "Z", "R00"} \subseteq DOMAIN prop.v.v}

Identity ==
    [R00 |-> 1, R01 |-> 0, R02 |-> 0, R10 |-> 0, R11 |-> 1, R12 |-> 0,
     R20 |-> 0, R21 |-> 0, R22 |-> 1]

\* C14: every sidecar of a node holds, for each included property whose
\* value is a transform record, the list of its twelve numbers X, Y, Z,
\* R00, R01, R02, R10, R11, R12, R20, R21, R22, a component that the record
\* lacks replaced by that of the identity matrix.
C14_TransformFlattened ==
    \A n \in Keys : \A p \in SidecarsOf(n) : \A i \in TransformsOf(n) :
        LET prop    == Node(n).properties[i]
            m       == prop.v.v
            order   == <<"X", "Y", "Z", "R00", "R01", "R02", "R10", "R11", "R12",
                         "R20", "R21", "R22">>
            written == DictGet(files[p].properties, prop.k)
        IN  /\ DictHas(files[p].properties, prop.k)
            /\ written.t = "list"
            /\ Len(written.v) = 12
            /\ \A j \in 1..12 :
                  IF order[j] \in DOMAIN m THEN written.v[j] = m[order[j]]
                  ELSE written.v[j].v = Identity[order[j]]

-----------------------------------------------------------------------------
(* Properties of the decoder *)

\* the property elements [item, prop] of the document whose decoded value
\* the node map holds under the property's name: those of elements with a
\* referent of their own and a class
StoredProps ==
    {e \in UNION {{[item |-> i, prop |-> j] : j \in 1..Len(doc.items[i].props)} :
                     i \in 1..Len(doc.items)} :
        /\ doc.items[e.item].ref \in Keys
        /\ \A i \in 1..Len(doc.items) : doc.items[i].ref = doc.items[e.item].ref => i = e.item
        /\ \A j \in 1..Len(doc.items[e.item].props) :
              doc.items[e.item].props[j].name = doc.items[e.item].props[e.prop].name
                 => j = e.prop}

Element(e) == doc.items[e.item].props[e.prop]

Stored(e) == DictGet(Node(doc.items[e.item].ref).properties, Element(e).name)

\* C15: the decoded value of a Color3 or Color3uint8 property is a record
\* with exactly R, G and B; a component whose sub-element is present is the
\* float of its text, a component whose sub-element is missing is 0.
C15_ColorComponents ==
    Parsed =>
        \A e \in StoredProps :
            Element(e).tag \in {"Color3", "Color3uint8"} =>
                /\ Stored(e).t = "map"
                /\ DOMAIN Stored(e).v = {"R", "G", "B"}
                /\ \A k \in {"R", "G", "B"} :
                      IF Find(Element(e).subs, k) # 0
                      THEN Stored(e).v[k] = ParseFloat(Element(e).subs[Find(Element(e).subs, k)].text)
                      ELSE Stored(e).v[k].v = 0

\* C16: the decoded value of a bool property is true when its text without
\* the surrounding whitespace is "true" in any case of letters, and false
\* for every other text.
C16_BoolTrimmed ==
    Parsed =>
        \A e \in StoredProps :
            Element(e).tag = "bool" =>
                Stored(e) = [t |-> "bool",
                             v |-> Lower(Strip(Element(e).text, Whitespace)) = TrueText]

\* the roots of class DataModel and the nodes of class Workspace that have a
\* Name property
NamedOf(refs, class_name) ==
    {n \in refs : Node(n).class = class_name /\ DictHas(Node(n).properties, "Name")}

NameOf(n) == DictGet(Node(n).properties, "Name")

\* C17: the game name is the Name of a root of class DataModel if one has a
\* Name; otherwise the Name of a node of class Workspace if one has a Name;
\* otherwise the base name of the input file without its extension.
C17_GameNamePriority ==
    Parsed =>
        IF NamedOf(Range(root_instances), "DataModel") # {}
        THEN game_data.name \in {NameOf(n) : n \in NamedOf(Range(root_instances), "DataModel")}
        ELSE IF NamedOf(Keys, "Workspace") # {}
        THEN game_data.name \in {NameOf(n) : n \in NamedOf(Keys, "Workspace")}
        ELSE game_data.name = StrV(<<"p","l","a","c","e">>)

\* a Workspace with a Name comes before a DataModel root with a Name, and
\* the game has the name of the DataModel
C17_Witness ==
    /\ Parsed
    /\ NamedOf(Range(root_instances), "DataModel") # {}
    /\ NamedOf(Keys, "Workspace") # {}
    /\ doc.items[1].class = "Workspace"
    /\ game_data.name = StrV(<<"g">>)

\* the $path entries of the manifest
StandardPaths ==
    {<<"src", "ReplicatedStorage">>, <<"src", "ServerScriptService">>,
     <<"src", "ServerStorage">>, <<"src", "StarterGui">>, <<"src", "StarterPack">>,
     <<"src", "StarterPlayer", "StarterPlayerScripts">>,
     <<"src", "StarterPlayer", "StarterCharacterScripts">>,
     <<"src", "Workspace">>, <<"src", "Lighting">>, <<"src", "SoundService">>,
     <<"src", "ReplicatedFirst">>, <<"src", "Players">>, <<"src", "Chat">>,
     <<"src", "LocalizationService">>, <<"src", "TestService">>,
     <<"src", "MarketplaceService">>, <<"src", "HttpService">>}

\* C18: once generate_project has returned, the directory of every $path
\* entry of the manifest exists under the output root, whatever the input
\* holds and whether or not the directory was there before the run.
C18_StandardDirectories ==
    Parsed /\ Generated => \A p \in StandardPaths : args.output_dir \o p \in dirs

\* a second run on the output of the first, for a document without elements
C18_Witness ==
    /\ Parsed
    /\ Generated
    /\ run = 2
    /\ instances = <<>>
    /\ args.output_dir \o <<"src", "StarterPlayer", "StarterCharacterScripts">> \in dirs
    /\ created_paths = {}

\* the properties of the node that go to the meta file
Filtered(node) ==
    SelectSeq(node.properties, LAMBDA prop : IncludedProperty(prop.k))

\* _create_meta_file(node, path) has written the sidecar at the place that
\* the path names, or has written nothing
SidecarRule(node, path) ==
    LET meta == Walk([dirs |-> dirs'], <<>>, Append(path, NameToken(node) \o ".meta.json"))
    IN  IF node.class = "Folder" /\ Filtered(node) = <<>>
        THEN files' = files
        ELSE /\ meta \in DOMAIN files'
             /\ files'[meta].className = node.class
             /\ [i \in 1..Len(files'[meta].properties) |-> files'[meta].properties[i].k]
                    = [i \in 1..Len(Filtered(node)) |-> Filtered(node)[i].k]

\* C19: every step that invokes _create_meta_file for a node (the placement
\* of a node that gets a directory, of a script with children, of a
\* Workspace root) writes the sidecar normalize_name(name).meta.json into the
\* directory given, unless the node's class is Folder and none of its
\* properties goes to the meta file: then, and only then, it writes none.
C19_SidecarRule ==
    [][/\ Placed =>
            LET node == Node(NewCall.ref)
                path == IF NewCall.is_root /\ node.class \in Range(NewCall.parent)
                        THEN NewCall.parent
                        ELSE PathJoin(NewCall.parent, NameToken(node))
            IN  IF node.class \in ScriptClasses
                THEN node.children # <<>> => SidecarRule(node, NewCall.parent)
                ELSE node.children # <<>> \/ NewCall.is_root \/ node.properties # <<>>
                        => SidecarRule(node, path)
       /\ pc = "roots" /\ pc' = "roots" /\ root_idx' = root_idx + 1
             /\ Node(root_instances[root_idx]).class = "Workspace"
          => SidecarRule(Node(root_instances[root_idx]), WorkspaceDir)]_vars

\* two root Folders of one name have been placed: the first has a property
\* for the meta file and a sidecar, the second has none and has left the
\* sidecar of the first as it was
C19_Witness ==
    /\ Parsed
    /\ Generated
    /\ \E i, j \in 1..Len(calls) :
          /\ i < j
          /\ calls[i].is_root /\ calls[j].is_root
          /\ Node(calls[i].ref).class = "Folder" /\ Filtered(Node(calls[i].ref)) # <<>>
          /\ Node(calls[j].ref).class = "Folder" /\ Filtered(Node(calls[j].ref)) = <<>>
          /\ NameToken(Node(calls[i].ref)) = NameToken(Node(calls[j].ref))
    /\ args.output_dir \o <<"src", "a", "a.meta.json">> \in DOMAIN files
    /\ Len(files[args.output_dir \o <<"src", "a", "a.meta.json">>].properties) = 1

RECURSIVE Reachable(_)
\* the nodes that children links reach from the nodes of S, S included
Reachable(S) ==
    LET next == S \cup UNION {Range(Node(n).children) : n \in S}
    IN  IF next = S THEN S ELSE Reachable(next)

\* every element of the document has a referent of its own
DistinctReferents ==
    \A i, j \in 1..Len(doc.items) :
        doc.items[i].ref # "" /\ (doc.items[i].ref = doc.items[j].ref => i = j)

\* C20: at the end of a conversion of a document whose referents are
\* distinct, every node that children links reach from a root has been
\* passed to the placement rule exactly once (a root of class Workspace,
\* which generate_project places itself, aside), none of them by the loop of
\* main that processes the children of the Workspace again.
C20_ExactlyOnce ==
    Parsed /\ pc = "done" /\ exit_code = 0 /\ DistinctReferents =>
        /\ \A n \in Reachable(Range(root_instances)) \ WorkspaceRoots :
              Cardinality({i \in 1..Len(calls) : calls[i].ref = n}) = 1
        /\ \A i \in 1..Len(calls) : calls[i].origin.phase # "fallback"

\* C21: in the game data that parse() returns no node that the emitter
\* visits (one that children links reach from a root) is reachable from
\* itself by children links, so that the recursion over the children ends
\* without exhausting the call stack.
C21_ChildrenAcyclic ==
    Parsed =>
        /\ \A n \in Reachable(Range(root_instances)) :
              n \notin Reachable(Range(Node(n).children))
        /\ Len(stack) < MaxDepth

\* the directories and files made since the run began
Made ==
    (dirs \ DirsBefore(out_before)) \cup (DOMAIN files \ DOMAIN FilesBefore(out_before))

\* C22: every directory and file made by a run is the output root, the
\* manifest default.project.json directly in the output root, or the
\* directory src of the output root or a place below it, whatever the names
\* of the nodes are.
C22_InsideOutputRoot ==
    run # 3 => \A p \in Made :
        \/ p = args.output_dir
        \/ p = Append(args.output_dir, "default.project.json")
        \/ IsPrefix(Append(args.output_dir, "src"), p)

\* the paths of the files that the call c of the placement rule writes: the
\* file of a script and, if it has children, its sidecar; the sidecar of
\* another node that gets a directory
Outputs(c) ==
    LET node  == Node(c.ref)
        token == NameToken(node)
        ext   == CASE node.class = "Script"      -> ".server.lua"
                   [] node.class = "LocalScript" -> ".client.lua"
                   [] OTHER                      -> ".lua"
        dir   == IF c.is_root /\ node.class \in Range(c.parent) THEN c.parent
                 ELSE Append(c.parent, token)
    IN  IF node.class \in ScriptClasses
        THEN {Append(c.parent, token \o ext)}
                 \cup (IF node.children # <<>>
                       THEN {Append(c.parent, token \o ".meta.json")} ELSE {})
        ELSE IF /\ node.children # <<>> \/ c.is_root \/ node.properties # <<>>
                /\ node.class # "Folder" \/ Filtered(node) # <<>>
             THEN {Append(dir, token \o ".meta.json")}
             ELSE {}

\* C23: in a first run on a document whose referents are distinct, two
\* distinct nodes that are children of one parent and are placed in the same
\* directory write no file of the same path, and once the run has ended well
\* the file of every script that was placed holds that script's Source.
C23_NoCollision ==
    Parsed /\ run = 1 /\ DistinctReferents =>
        /\ \A i, j \in 1..Len(calls) :
              /\ i < j
              /\ calls[i].ref # calls[j].ref
              /\ calls[i].origin.caller # None
              /\ calls[i].origin.caller = calls[j].origin.caller
              /\ calls[i].parent = calls[j].parent
              => Outputs(calls[i]) \cap Outputs(calls[j]) = {}
        /\ pc = "done" /\ exit_code = 0 =>
              \A i \in 1..Len(calls) :
                  LET node == Node(calls[i].ref)
                      f    == Walk([dirs |-> dirs], <<>>,
                                   Append(calls[i].parent,
                                          NameToken(node) \o ScriptExtension(node.class)))
                  IN  node.class \in ScriptClasses =>
                          /\ f \in DOMAIN files
                          /\ files[f] = IF DictHas(node.properties, "Source")
                                        THEN DictGet(node.properties, "Source")
                                        ELSE StrV(<<>>)

\* C24: when the conversion of a game_data has ended well in one output
\* directory and is run again with another output directory, the second
\* run, once it has ended well, has left below its output directory the
\* directories and files of the same relative paths and the same contents
\* that the first run left below its own.
C24_OutputRootIndependent ==
    run = 3 /\ pc = "done" /\ exit_code = 0 => Layout(args.output_dir) = first_output

====
